---- MODULE Spec2Model ----
(***************************************************************************)
(* Synchronization jobs of the repository (sync_boletos.py,                *)
(* sync_customers.py, sync_orders.py, sync_products.py and the /sync-orders*)
(* job of main.py) as runs against one PostgreSQL target table.            *)
(*                                                                         *)
(* A run opens a connection (one transaction), reads what it needs from    *)
(* the committed table, fetches the remote payload, transforms it, writes  *)
(* the batch one statement at a time and then commits, rolls back or just  *)
(* closes, as the job's code does.  Two runs may interleave.               *)
(***************************************************************************)
EXTENDS Integers, Sequences, FiniteSets, TLC

(***************************************************************************)
(* Bounds of the model.                                                    *)
(***************************************************************************)
MaxPayload == 2
MaxPages == 3

(***************************************************************************)
(* Python values.  A field of a raw record is [k, s]: k is its kind        *)
(* ("absent": the key is not in the dict, "null": None, "str", "num") and  *)
(* s its text, a sequence of characters (tokens).                          *)
(***************************************************************************)
Absent == [k |-> "absent", s |-> <<>>]
Null == [k |-> "null", s |-> <<>>]
Str(s) == [k |-> "str", s |-> s]
Num(s) == [k |-> "num", s |-> s]

\* dict.get(key, default): the default only when the key is absent.
Get(f, default) == IF f.k = "absent" THEN default ELSE f

\* Python truthiness of a field value (None, "" and 0 are falsy).
Truthy(f) ==
    CASE f.k = "absent" -> FALSE
      [] f.k = "null" -> FALSE
      [] f.k = "str" -> f.s # <<>>
      [] OTHER -> f.s # <<"0">>

\* str(x)
PyStr(f) == IF f.k = "null" THEN <<"None">> ELSE f.s

LowerChar(c) == IF c = "J" THEN "j" ELSE IF c = "K" THEN "k" ELSE c

\* str.lower()
Lower(s) == [i \in DOMAIN s |-> LowerChar(s[i])]

RECURSIVE LStrip(_)
LStrip(s) == IF s # <<>> /\ Head(s) = " " THEN LStrip(Tail(s)) ELSE s

RECURSIVE RStrip(_)
RStrip(s) ==
    IF s # <<>> /\ s[Len(s)] = " " THEN RStrip(SubSeq(s, 1, Len(s) - 1)) ELSE s

\* str.strip()
Strip(s) == RStrip(LStrip(s))

\* str.replace("Z", "+00:00")
ReplaceZ(s) == [i \in DOMAIN s |-> IF s[i] = "Z" THEN "+00:00" ELSE s[i]]

IsoStamps == {"2024-05-01", "2024-05-01T10:00:00"}

\* datetime.fromisoformat(x).date(): TypeError on a non-string, ValueError on
\* a string that is no ISO date.  An explicit offset is accepted; a bare "Z"
\* suffix is what process_orders rewrites before parsing.
FromIsoDate(f) ==
    IF f.k # "str" THEN [exc |-> "TypeError", v |-> <<>>]
    ELSE IF Len(f.s) \in {1, 2} /\ f.s[1] \in IsoStamps
            /\ (Len(f.s) = 2 => f.s[2] = "+00:00")
         THEN [exc |-> "none", v |-> <<"2024-05-01">>]
         ELSE [exc |-> "ValueError", v |-> <<>>]

Numerals == {"0", "10", "20"}

\* Decimal(str(x)): decimal.InvalidOperation (an ArithmeticError, not a
\* ValueError) when the text is no number, e.g. "None".
PyDecimal(f) ==
    IF Strip(PyStr(f)) \in {<<n>> : n \in Numerals}
    THEN [exc |-> "none", v |-> Strip(PyStr(f))]
    ELSE [exc |-> "InvalidOperation", v |-> <<>>]

(***************************************************************************)
(* Rows.  key is the external code, val the non-key column the payload     *)
(* carries, cli the resolved id_cliente (0 is NULL), dt the parsed date.   *)
(***************************************************************************)
MkRow(key, val, cli, dt) == [key |-> key, val |-> val, cli |-> cli, dt |-> dt]
NoRow == MkRow(<<>>, <<>>, 0, <<>>)

Raised(e) == [exc |-> e, row |-> NoRow]
Made(row) == [exc |-> "none", row |-> row]
Skipped == [exc |-> "skip", row |-> NoRow]

(***************************************************************************)
(* Raw records of the remote API: [id, date, ref, num, text], the fields   *)
(* each job reads: id is 'Id' / 'ID' / 'Email', date is 'DataEmissao' /    *)
(* 'Data', ref is 'Sacado' / 'ClienteEmail', num is 'ValorBoleto' /        *)
(* 'PrecoVenda' / 'ValorFinal', text is 'Descricao' / 'Nome' /             *)
(* 'RazaoSocial' / 'Cliente'.                                              *)
(***************************************************************************)
Raw(id, date, ref, num, text) ==
    [id |-> id, date |-> date, ref |-> ref, num |-> num, text |-> text]

\* What psycopg2 stores for a text column: NULL (here the empty text) for None.
DbText(f) == IF f.k \in {"absent", "null"} THEN <<>> ELSE f.s

(***************************************************************************)
(* Reference maps: sets of [key, id].                                      *)
(***************************************************************************)
\* dict.get(key): None (0) when the key is not in the map.
MapGet(map, key) ==
    IF \E e \in map : e.key = key
    THEN (CHOOSE e \in map : e.key = key).id
    ELSE 0

\* sync_boletos.fetch_clientes_mapping: rows with a falsy razao_social are
\* left out, the others are keyed by razao.strip().lower().
fetch_clientes_mapping(rows) ==
    [exc |-> "none",
     map |-> {[key |-> Lower(Strip(c.name.s)), id |-> c.id] :
                 c \in {d \in rows : Truthy(d.name)}}]

\* sync_orders.fetch_clients_map: row[0].lower() on every row, no filter and
\* no strip; a NULL email raises AttributeError.
fetch_clients_map(rows) ==
    IF \E c \in rows : c.name.k # "str"
    THEN [exc |-> "AttributeError", map |-> {}]
    ELSE [exc |-> "none",
          map |-> {[key |-> Lower(c.name.s), id |-> c.id] : c \in rows}]

(***************************************************************************)
(* One record through each job's transformation: Made(row), Skipped (a     *)
(* continue), or Raised(e) with the exception the statement raises first.  *)
(***************************************************************************)
\* sync_boletos.transform_boleto_data, the body of the for loop (the try
\* block, before its except clause).
BoletoItem(item, map) ==
    LET dt == IF Truthy(item.date) THEN FromIsoDate(item.date)
              ELSE [exc |-> "none", v |-> <<>>]
        sacado == IF Truthy(Get(item.ref, Str(<<>>))) THEN item.ref
                  ELSE Str(<<>>)
        valor == PyDecimal(Get(item.num, Num(<<"0">>)))
        descr == Get(item.text, Str(<<>>))
    IN  IF item.id.k = "absent" THEN Skipped
        ELSE IF dt.exc # "none" THEN Raised(dt.exc)
        ELSE IF sacado.k # "str" THEN Raised("AttributeError")
        ELSE IF valor.exc # "none" THEN Raised(valor.exc)
        ELSE IF descr.k # "str" THEN Raised("TypeError")
        ELSE Made(MkRow(PyStr(item.id), valor.v,
                        MapGet(map, Lower(Strip(sacado.s))), dt.v))

\* sync_products.transform_product_data, the body of the for loop.
ProductItem(item) ==
    LET preco == PyDecimal(item.num)
    IN  IF item.id.k = "absent" THEN Raised("KeyError")
        ELSE IF item.text.k = "absent" THEN Raised("KeyError")
        ELSE IF item.num.k = "absent" THEN Raised("KeyError")
        ELSE IF preco.exc # "none" THEN Raised(preco.exc)
        ELSE Made(MkRow(PyStr(item.id), preco.v, 0, <<>>))

\* sync_orders.process_orders, the body of the for loop.
OrderItem(order, map) ==
    LET email == Get(order.ref, Str(<<>>))
        client_id == MapGet(map, Lower(email.s))
        dt == FromIsoDate(Str(ReplaceZ(order.date.s)))
    IN  IF email.k # "str" THEN Raised("AttributeError")
        ELSE IF Lower(email.s) = <<>> THEN Skipped
        ELSE IF client_id = 0 THEN Skipped
        ELSE IF order.date.k = "absent" THEN Raised("KeyError")
        ELSE IF order.date.k # "str" THEN Raised("AttributeError")
        ELSE IF dt.exc # "none" THEN Raised(dt.exc)
        ELSE IF order.id.k = "absent" THEN Raised("KeyError")
        ELSE Made(MkRow(order.id.s, PyStr(Get(order.num, Num(<<"0">>))),
                        client_id, dt.v))

\* sync_customers.sync_customers, the body of the for loop.
CustomerItem(customer) ==
    LET email == Get(customer.id, Null)
    IN  IF ~Truthy(email) THEN Skipped
        ELSE IF email.k # "str" THEN Raised("AttributeError")
        ELSE Made(MkRow(Lower(email.s), DbText(customer.text), 0, <<>>))

\* main.sync_orders_task, one element of the list comprehension: order['ID']
\* is read with no default and outside any per-record try.
TaskItem(order, existing_codes) ==
    IF order.id.k = "absent" THEN Raised("KeyError")
    ELSE IF order.id.s \in existing_codes THEN Skipped
    ELSE Made(MkRow(order.id.s, DbText(Get(order.text, Str(<<>>))), 0, <<>>))

\* The except clause around one record: the exception classes it catches.
AllExceptions ==
    {"KeyError", "ValueError", "TypeError", "AttributeError", "InvalidOperation"}

\* The loop over the payload: a caught exception skips the record, any other
\* leaves the loop and the function.
Collect(results, caught) ==
    LET escaped == {i \in DOMAIN results :
                       results[i].exc \notin ({"none", "skip"} \cup caught)}
        kept == SelectSeq(results, LAMBDA x : x.exc = "none")
    IN  IF escaped # {}
        THEN [exc |-> results[CHOOSE i \in escaped :
                                 \A j \in escaped : i <= j].exc,
              batch |-> <<>>]
        ELSE [exc |-> "none", batch |-> [i \in DOMAIN kept |-> kept[i].row]]

\* An except clause that names KeyError alone.
BoletoCaughtKeyError == {"KeyError"}

\* sync_boletos.transform_boleto_data: except (KeyError, ValueError).
BoletoCaught == {"KeyError", "ValueError"}
transform_boleto_data(api_data, clientes_map) ==
    Collect([i \in DOMAIN api_data |-> BoletoItem(api_data[i], clientes_map)],
            BoletoCaught)

\* sync_products.transform_product_data: except (KeyError, ValueError).
ProductCaught == {"KeyError", "ValueError"}
transform_product_data(api_data) ==
    Collect([i \in DOMAIN api_data |-> ProductItem(api_data[i])], ProductCaught)

process_orders(orders, clients_map) ==
    Collect([i \in DOMAIN orders |-> OrderItem(orders[i], clients_map)],
            AllExceptions)

customers_to_upsert(customers_data) ==
    Collect([i \in DOMAIN customers_data |-> CustomerItem(customers_data[i])],
            {})

new_orders(orders, existing_codes) ==
    Collect([i \in DOMAIN orders |-> TaskItem(orders[i], existing_codes)], {})

\* sync_products.sync_products, step 4: the products whose code is not among
\* the codes read before the fetch.
new_products(all_products, existing_codes) ==
    SelectSeq(all_products, LAMBDA p : p.key \notin existing_codes)

(***************************************************************************)
(* State.                                                                  *)
(*   job      the synchronization job the runs execute                     *)
(*   table    the committed rows of the job's target table                 *)
(*   clientes the committed customer rows [id, name] the reference map is  *)
(*            built from (name: razao_social for boletos, email for        *)
(*            orders)                                                      *)
(*   remote   remote[r]: the payload the API returns to run r              *)
(*   run      run[r]: the position and the locals of run r                 *)
(*   pager    the locals of one call of fetch_paginated_orders, and the    *)
(*            pages the API holds for it                                   *)
(***************************************************************************)
VARIABLES job, table, clientes, remote, run, pager

vars == <<job, table, clientes, remote, run, pager>>

Runs == {1, 2}
Other(r) == 3 - r

UpsertJobs == {"boletos", "customers"}
Jobs == {"boletos", "customers", "all_orders", "products", "orders_task"}

\* Every job with a plain INSERT, no ON CONFLICT clause.
OnConflictPlainInsert(j) == "error"

\* What the job's INSERT statement does when the key exists: "update" (ON
\* CONFLICT ... DO UPDATE), "nothing" (ON CONFLICT DO NOTHING) or "error"
\* (a plain INSERT: unique violation).
OnConflict(j) ==
    CASE j = "boletos" -> "update"
      [] j = "customers" -> "update"
      [] j = "all_orders" -> "nothing"
      [] OTHER -> "error"

\* Whether the job's connection handling calls conn.commit() after the
\* endpoint returned: get_db_cursor does, sync_orders_task (handed the bare
\* connection) never does.
CommitsOnSuccess(j) == j # "orders_task"

\* An update that adds the incoming value to the stored one.
ExcludedAccumulate(old, new) == [new EXCEPT !.val = old.val \o new.val]

\* ON CONFLICT DO UPDATE SET col = EXCLUDED.col, for every non-key column.
Excluded(old, new) == new

Keys(rows) == {x.key : x \in rows}
PendRows(pend) == {p.row : p \in pend}

NoResult == [status |-> "none", written |-> 0, total |-> 0, err |-> "none"]

IdleRun ==
    [pc |-> "idle", refs |-> {}, existing |-> {}, batch |-> <<>>, total |-> 0,
     seen |-> 0, pos |-> 1, pend |-> {}, rowcount |-> 0, res |-> NoResult,
     before |-> {}, after |-> {}, solo |-> TRUE, prev |-> FALSE]

Active(r) == run[r].pc \notin {"idle", "closed"}

(***************************************************************************)
(* The store.  A statement of run r on key k waits while another open      *)
(* transaction holds an uncommitted write of k.                            *)
(***************************************************************************)
Waits(r, k) == k \in Keys(PendRows(run[Other(r)].pend))

\* The rows run r's statement sees: the committed rows and its own writes.
Visible(r) ==
    {t \in table : t.key \notin Keys(PendRows(run[r].pend))}
        \cup PendRows(run[r].pend)

\* COMMIT: updated rows replace the committed row, inserted rows are added.
Committed(rows, pend) ==
    {t \in rows : t.key \notin Keys(PendRows({p \in pend : p.op = "upd"}))}
        \cup PendRows(pend)

\* A rollback that commits what the transaction wrote so far.
RolledBackCommitted(rows, pend) == Committed(rows, pend)

\* conn.rollback() in get_db_cursor (for sync_orders_task: the connection
\* closed with the transaction open): the table the run's writes leave.
RolledBack(rows, pend) == rows

\* One INSERT statement of run r for `row` under the job's conflict clause:
\* the run's writes after it, and the error it raises.
Statement(r, row) ==
    LET hit == {p \in run[r].pend : p.row.key = row.key}
        old == CHOOSE t \in Visible(r) : t.key = row.key
    IN  IF row.key \notin Keys(Visible(r))
        THEN [err |-> "none", n |-> 1,
              pend |-> run[r].pend \cup {[row |-> row, op |-> "ins"]}]
        ELSE CASE OnConflict(job) = "update" ->
                    [err |-> "none", n |-> 1,
                     pend |-> (run[r].pend \ hit) \cup
                         {[row |-> Excluded(old, row),
                           op |-> IF \E p \in hit : p.op = "ins"
                                  THEN "ins" ELSE "upd"]}]
               [] OnConflict(job) = "nothing" ->
                    [err |-> "none", n |-> 0, pend |-> run[r].pend]
               [] OTHER ->
                    [err |-> "duplicate_key", n |-> 0, pend |-> {}]

(***************************************************************************)
(* The steps of a run.                                                     *)
(***************************************************************************)
\* What the endpoint reads from the store before it calls the API:
\* fetch_clientes_mapping (sync_boletos), fetch_clients_map
\* (sync_all_orders), get_existing_product_codes (sync_products),
\* get_existing_codes (sync_orders_task); sync_customers reads nothing.
Prelude(j) ==
    CASE j = "boletos" ->
            [exc |-> "none", refs |-> fetch_clientes_mapping(clientes).map,
             existing |-> {}]
      [] j = "all_orders" ->
            [exc |-> fetch_clients_map(clientes).exc,
             refs |-> fetch_clients_map(clientes).map, existing |-> {}]
      [] j = "customers" -> [exc |-> "none", refs |-> {}, existing |-> {}]
      [] OTHER -> [exc |-> "none", refs |-> {}, existing |-> Keys(table)]

\* What the endpoint makes of the payload: the batch it hands to the store,
\* the count it reports as available, and the exception that escapes the
\* transformation.
Prepared(j, r, payload) ==
    CASE j = "boletos" ->
            LET t == transform_boleto_data(payload, run[r].refs)
            IN  [exc |-> t.exc, batch |-> t.batch, total |-> Len(t.batch)]
      [] j = "all_orders" ->
            LET t == process_orders(payload, run[r].refs)
            IN  [exc |-> t.exc, batch |-> t.batch, total |-> Len(payload)]
      [] j = "customers" ->
            LET t == customers_to_upsert(payload)
            IN  [exc |-> t.exc, batch |-> t.batch, total |-> Len(payload)]
      [] j = "products" ->
            LET t == transform_product_data(payload)
            IN  [exc |-> t.exc,
                 batch |-> new_products(t.batch, run[r].existing),
                 total |-> Len(t.batch)]
      [] OTHER ->
            LET t == new_orders(payload, run[r].existing)
            IN  [exc |-> t.exc, batch |-> t.batch, total |-> Len(payload)]

\* The endpoint raises HTTPException(500): the exception reaches
\* get_db_cursor, which rolls back, and the connection is closed.  The
\* store drops the writes of the aborted transaction.
Failed(r, err) ==
    [run[r] EXCEPT !.pc = "closed", !.pend = {},
                   !.after = RolledBack(table, run[r].pend),
                   !.res = [status |-> "error", written |-> 0, total |-> 0,
                            err |-> err]]

\* The connection is opened (get_db_connection), the cursor handed to the
\* endpoint, and the endpoint does its first reads of the store.
Begin(r) ==
    /\ run[r].pc = "idle"
    /\ LET p == Prelude(job)
           me == [run[r] EXCEPT !.pc = "fetch", !.refs = p.refs,
                                !.existing = p.existing, !.before = table,
                                !.solo = ~Active(Other(r)),
                                !.prev = (run[Other(r)].pc = "closed")]
           o == Other(r)
       IN  run' = [run EXCEPT
                     ![r] = IF p.exc = "none" THEN me
                            ELSE [Failed(r, "refs") EXCEPT
                                    !.before = table,
                                    !.solo = ~Active(o),
                                    !.prev = (run[o].pc = "closed")],
                     ![o] = IF Active(o) THEN [run[o] EXCEPT !.solo = FALSE]
                            ELSE run[o]]
    /\ UNCHANGED <<job, table, clientes, remote, pager>>

\* Run r once the API has returned `payload`: the endpoint transforms it
\* and goes on to the write, or fails on an exception of the transformation.
Fetched(r, payload) ==
    LET p == Prepared(job, r, payload)
    IN  IF p.exc # "none" THEN Failed(r, "transform")
        ELSE [run[r] EXCEPT
                !.pc = IF p.batch = <<>> THEN "done" ELSE "write",
                !.batch = p.batch, !.total = p.total,
                !.seen = Len(payload), !.pos = 1]

\* The API call succeeds and the endpoint transforms what it returned.
Fetch(r) ==
    /\ run[r].pc = "fetch"
    /\ run' = [run EXCEPT ![r] = Fetched(r, remote[r])]
    /\ UNCHANGED <<job, table, clientes, remote, pager>>

\* The API call fails (non-2xx status, timeout, connection error).
FetchFail(r) ==
    /\ run[r].pc = "fetch"
    /\ run' = [run EXCEPT ![r] = Failed(r, "transport")]
    /\ UNCHANGED <<job, table, clientes, remote, pager>>

\* executemany / execute_batch: the next statement of the batch.
Write(r) ==
    /\ run[r].pc = "write"
    /\ ~Waits(r, run[r].batch[run[r].pos].key)
    /\ LET st == Statement(r, run[r].batch[run[r].pos])
       IN  /\ run' = [run EXCEPT ![r] =
                IF st.err # "none" THEN Failed(r, st.err)
                ELSE [run[r] EXCEPT
                        !.pend = st.pend,
                        !.rowcount = @ + st.n,
                        !.pos = @ + 1,
                        !.pc = IF run[r].pos = Len(run[r].batch)
                               THEN "done" ELSE "write"]]
           /\ table' = IF st.err # "none"
                       THEN RolledBack(table, run[r].pend) ELSE table
    /\ UNCHANGED <<job, clientes, remote, pager>>

\* A statement of the batch fails in the store for another reason (a lost
\* connection, a constraint of the schema): the transaction is aborted.
WriteFail(r) ==
    /\ run[r].pc = "write"
    /\ run' = [run EXCEPT ![r] = Failed(r, "database")]
    /\ table' = RolledBack(table, run[r].pend)
    /\ UNCHANGED <<job, clientes, remote, pager>>

\* Both runs wait for a key the other has written: the store aborts one.
DeadlockAbort(r) ==
    /\ run[r].pc = "write"
    /\ run[Other(r)].pc = "write"
    /\ Waits(r, run[r].batch[run[r].pos].key)
    /\ Waits(Other(r), run[Other(r)].batch[run[Other(r)].pos].key)
    /\ run' = [run EXCEPT ![r] = Failed(r, "deadlock")]
    /\ table' = RolledBack(table, run[r].pend)
    /\ UNCHANGED <<job, clientes, remote, pager>>

\* The endpoint returns its summary; get_db_cursor commits and the
\* connection is closed (sync_orders_task: closed with nothing committed).
Success(r) ==
    /\ run[r].pc = "done"
    /\ table' = IF CommitsOnSuccess(job) THEN Committed(table, run[r].pend)
                ELSE table
    /\ run' = [run EXCEPT ![r] =
                 [run[r] EXCEPT
                    !.pc = "closed", !.pend = {}, !.after = table',
                    !.res = [status |-> "success",
                             written |-> Len(run[r].batch),
                             total |-> run[r].total, err |-> "none"]]]
    /\ UNCHANGED <<job, clientes, remote, pager>>

Step(r) ==
    \/ Begin(r)
    \/ Fetch(r)
    \/ FetchFail(r)
    \/ Write(r)
    \/ WriteFail(r)
    \/ Success(r)

Next == \E r \in Runs : Step(r) \/ DeadlockAbort(r)

(***************************************************************************)
(* sync_orders.fetch_paginated_orders.                                     *)
(***************************************************************************)
\* The page length below which a page is the last one.
PageSize == 100

\* Page p of the remote source: the records <<p, 1>> .. <<p, n>>.
PageOf(sizes, p) ==
    IF p \in DOMAIN sizes THEN [i \in 1..sizes[p] |-> <<p, i>>] ELSE <<>>

\* A test that also takes a full page for the last one.
LastPageInclusive(data) == Len(data) <= PageSize

\* if len(data) < 100: break
LastPage(data) == Len(data) < PageSize

IdlePager ==
    [sizes |-> <<>>, pc |-> "idle", page |-> 1, all_orders |-> <<>>,
     log |-> <<>>]

\* One turn of the while loop with a response of status 2xx.
RequestPage ==
    /\ pager.pc = "loop"
    /\ LET data == PageOf(pager.sizes, pager.page)
       IN  pager' =
             [pager EXCEPT
                !.log = Append(@, pager.page),
                !.all_orders = @ \o data,
                !.pc = IF data = <<>> \/ LastPage(data)
                       THEN "returned" ELSE "loop",
                !.page = IF data = <<>> \/ LastPage(data) THEN @ ELSE @ + 1]
    /\ UNCHANGED <<job, table, clientes, remote, run>>

\* An except clause that leaves the loop and returns the pages fetched so
\* far.
PageFailureBreak(p) == [p EXCEPT !.log = Append(@, p.page), !.pc = "returned"]

\* except requests.exceptions.RequestException: raise HTTPException(500).
PageFailure(p) == [p EXCEPT !.log = Append(@, p.page), !.pc = "raised"]

\* One turn of the while loop whose request raises RequestException (a
\* non-2xx status in raise_for_status, a timeout, a connection error).
RequestFails ==
    /\ pager.pc = "loop"
    /\ pager' = PageFailure(pager)
    /\ UNCHANGED <<job, table, clientes, remote, run>>

NextPaging == RequestPage \/ RequestFails

(***************************************************************************)
(* Inputs.                                                                 *)
(***************************************************************************)
SeqsUpTo(S, n) == UNION {[1..m -> S] : m \in 0..n}

IdTokens == {"1", "2"}
ValTokens == {"10", "20"}

\* The identifier field as the job's API sends it: an email for customers,
\* a number for the others.
IdField(j, i) == IF j = "customers" THEN Str(<<i>>) ELSE Num(<<i>>)

\* A well-formed record with external code i and content v, whose customer
\* reference resolves.
CleanRaw(j, i, v) ==
    Raw(IdField(j, i), Str(<<"2024-05-01">>), Str(<<"j">>), Num(<<v>>),
        Str(<<v>>))

CleanRaws(j) ==
    {CleanRaw(j, "1", v) : v \in ValTokens} \cup {CleanRaw(j, "2", "10")}

Customer(id, name) == [id |-> id, name |-> name]

\* Tables as an earlier committed run left them: at most one row per key.
InitTables == {{}, {MkRow(<<"1">>, <<"20">>, 0, <<>>)}}

Init ==
    /\ job \in Jobs
    /\ table \in InitTables
    /\ clientes = {Customer(5, Str(<<"j">>))}
    /\ remote \in [Runs -> SeqsUpTo(CleanRaws(job), MaxPayload)]
    /\ run = [r \in Runs |-> IdleRun]
    /\ pager = IdlePager

Spec == Init /\ [][Next]_vars

(***************************************************************************)
(* Claims about runs against the store.                                    *)
(***************************************************************************)
Closed(r) == run[r].pc = "closed"
Succeeded(r) == Closed(r) /\ run[r].res.status = "success"
BatchRows(r) == {run[r].batch[i] : i \in DOMAIN run[r].batch}

\* Run r is the second of two runs in succession: it began after the other
\* run had ended in success, and the API returned the same payload to both.
SecondRun(r) ==
    /\ Closed(r)
    /\ run[r].prev
    /\ Succeeded(Other(r))
    /\ remote[r] = remote[Other(r)]

\* C1: for sync-boletos, sync-customers, sync-all-orders and sync-products,
\* a second run in succession against the unchanged remote source leaves the
\* target table equal to the table the first run left.
C1_SecondRunKeepsTable ==
    \A r \in Runs :
        (job # "orders_task" /\ SecondRun(r))
            => run[r].after = run[Other(r)].after

\* A second successful run after a first one that wrote rows.
C1_Witness ==
    \E r \in Runs :
        /\ job # "orders_task"
        /\ SecondRun(r)
        /\ Succeeded(r)
        /\ run[Other(r)].after # run[Other(r)].before
        /\ run[r].batch # <<>>

\* The last record of the batch with key k: the one executemany applies last.
LastFor(batch, k) ==
    batch[CHOOSE i \in DOMAIN batch :
            /\ batch[i].key = k
            /\ \A j \in DOMAIN batch : batch[j].key = k => j <= i]

\* C2: under the upsert policy (sync-boletos, sync-customers) no run of any
\* interleaving ends in a duplicate-key failure, the table never holds two
\* rows with one external code, and once both runs have ended every code a
\* successful run wrote has exactly one row, holding the incoming values of
\* one of the successful runs (the last writer).
C2_UpsertConverges ==
    job \in UpsertJobs =>
        /\ \A r \in Runs : run[r].res.err # "duplicate_key"
        /\ \A t, u \in table : t.key = u.key => t = u
        /\ (Closed(1) /\ Closed(2)) =>
              \A r \in Runs : \A k \in Keys(BatchRows(r)) :
                  Succeeded(r) =>
                      \E t \in table :
                          /\ t.key = k
                          /\ \E w \in Runs :
                                /\ Succeeded(w)
                                /\ k \in Keys(BatchRows(w))
                                /\ t = LastFor(run[w].batch, k)

\* Two overlapping successful runs wrote the same code with different values.
C2_Witness ==
    /\ job \in UpsertJobs
    /\ Succeeded(1) /\ Succeeded(2)
    /\ ~run[1].solo /\ ~run[1].prev /\ ~run[2].prev
    /\ \E k \in Keys(BatchRows(1)) \cap Keys(BatchRows(2)) :
          LastFor(run[1].batch, k) # LastFor(run[2].batch, k)

\* A run that ended in failure after its batch write had begun.
FailedInWrite(r) ==
    /\ Closed(r)
    /\ run[r].res.err \in {"duplicate_key", "database", "deadlock"}

\* C3: a run whose batch write fails ends in failure and commits none of its
\* records: with no concurrent run the table is what it was before the run
\* started, and in any interleaving every row that appeared meanwhile was
\* committed by the other, successful run.
C3_AllOrNothing ==
    \A r \in Runs :
        (Closed(r) /\ run[r].res.status = "error") =>
            /\ run[r].solo => run[r].after = run[r].before
            /\ \A t \in run[r].after \ run[r].before :
                  Succeeded(Other(r)) /\ t \in BatchRows(Other(r))

\* A run alone on the store failed after at least one statement of its batch
\* had written a row.
C3_Witness ==
    \E r \in Runs :
        /\ FailedInWrite(r)
        /\ run[r].solo
        /\ run[r].rowcount > 0
        /\ \E i \in 1..(run[r].pos - 1) : run[r].batch[i] \notin run[r].before

\* C4: whenever a run of any job, /sync-orders of main.py included, returns
\* success reporting N > 0 written records, the rows are in the target table
\* once the run's connection is closed.
C4_SuccessIsCommitted ==
    \A r \in Runs :
        (Succeeded(r) /\ run[r].res.written > 0) =>
            Keys(BatchRows(r)) \subseteq Keys(run[r].after)

\* C4 for the jobs whose connection handling is get_db_cursor.
C4_CursorJobsCommit ==
    job # "orders_task" => C4_SuccessIsCommitted

\* C9: a second run in succession against the unchanged remote source
\* reports zero newly-written records under the upsert policy (sync-boletos
\* 'upserted', sync-all-orders 'processados'), and under the insert-only
\* policy (sync-products) zero inserted records with all N available records
\* accounted for.
C9_SecondRunReportsZero ==
    \A r \in Runs :
        (SecondRun(r) /\ Succeeded(r)) =>
            /\ job \in {"boletos", "all_orders", "products"}
                  => run[r].res.written = 0
            /\ job = "products" => run[r].res.total = Len(remote[r])

\* C9 for sync-products alone.
C9_ProductsSecondRun ==
    job = "products" => C9_SecondRunReportsZero

\* Both runs read the store before either ended, and both batches hold the
\* same external code.
Raced ==
    /\ Closed(1) /\ Closed(2)
    /\ ~run[1].prev /\ ~run[2].prev
    /\ Keys(BatchRows(1)) \cap Keys(BatchRows(2)) # {}

\* C10: for the insert-only jobs (sync-products, /sync-orders of main.py),
\* when both runs read the existing keys before either commits and both
\* insert the same external code, the race ends a run in a duplicate-key
\* failure (unless the store or the API already failed a run otherwise).
C10_RaceFailsARun ==
    (job \in {"products", "orders_task"} /\ Raced) =>
        \E r \in Runs : run[r].res.status = "error"

\* C10 for sync-products alone.
C10_ProductsRaceFailsARun ==
    job = "products" => C10_RaceFailsARun

\* sync-products: the race happened and the run that inserted second ended
\* in a duplicate-key failure on a code it had not seen among the existing.
C10_ProductsRaceReached ==
    /\ job = "products"
    /\ Raced
    /\ \E r \in Runs :
          /\ run[r].res.err = "duplicate_key"
          /\ Succeeded(Other(r))
          /\ run[r].batch[run[r].pos].key \in Keys(BatchRows(Other(r)))
          /\ run[r].batch[run[r].pos].key \notin run[r].existing

\* The row of `rows` with key k.
RowOf(rows, k) == CHOOSE t \in rows : t.key = k

\* C12: after a successful run of sync-boletos, sync-customers or
\* sync-all-orders, every record of the batch whose key was in the table
\* before the run has its row holding the incoming values of the record.
C12_UpsertOverwrites ==
    \A r \in Runs :
        (job \in {"boletos", "customers", "all_orders"} /\ Succeeded(r)) =>
            \A k \in Keys(BatchRows(r)) \cap Keys(run[r].before) :
                /\ k \in Keys(run[r].after)
                /\ RowOf(run[r].after, k) = LastFor(run[r].batch, k)

\* C12 for the jobs whose statement is ON CONFLICT ... DO UPDATE.
C12_DoUpdateOverwrites ==
    job \in UpsertJobs => C12_UpsertOverwrites

\* A DO UPDATE run overwrote a row that held other values.
C12_DoUpdateReached ==
    \E r \in Runs :
        /\ job \in UpsertJobs
        /\ Succeeded(r)
        /\ \E k \in Keys(BatchRows(r)) \cap Keys(run[r].before) :
              RowOf(run[r].before, k) # LastFor(run[r].batch, k)

\* C14: in every successful run of sync-boletos, sync-products and
\* sync-all-orders the written count returned to the caller equals the
\* number of rows the run's statements inserted or updated, also when
\* records of the batch already exist in the table.
C14_WrittenCountIsAccurate ==
    \A r \in Runs :
        (job \in {"boletos", "products", "all_orders"} /\ Succeeded(r)) =>
            run[r].res.written = run[r].rowcount

\* C14 for sync-boletos and sync-products.
C14_BoletosProductsCount ==
    job \in {"boletos", "products"} => C14_WrittenCountIsAccurate

\* A successful sync-boletos run over a batch with a key already in the
\* table reported the rows it wrote.
C14_BoletosReached ==
    \E r \in Runs :
        /\ job = "boletos"
        /\ Succeeded(r)
        /\ Keys(BatchRows(r)) \cap Keys(run[r].before) # {}
        /\ run[r].res.written = run[r].rowcount
        /\ run[r].rowcount > 0

(***************************************************************************)
(* One run on payloads with data-quality problems.                         *)
(***************************************************************************)
\* A well-formed record with one field changed.
Variants(base) ==
    {[base EXCEPT !.id = Absent]}
        \cup {[base EXCEPT !.date = d] :
                 d \in {Str(<<"01/05/2024">>), Absent, Null, Num(<<"10">>)}}
        \cup {[base EXCEPT !.ref = f] :
                 f \in {Str(<<"J", " ">>), Str(<<"k">>), Absent, Null}}
        \cup {[base EXCEPT !.num = n] : n \in {Null, Str(<<"x">>), Absent}}
        \cup {[base EXCEPT !.text = t] : t \in {Null, Absent}}

\* A timestamp with the "Z" zone marker, as the orders API sends it.
ZuluRaw(j) ==
    [CleanRaw(j, "2", "10") EXCEPT
        !.date = Str(<<"2024-05-01T10:00:00", "Z">>)]

RichRaws(j) ==
    {CleanRaw(j, "1", "10"), CleanRaw(j, "2", "20")}
        \cup Variants(CleanRaw(j, "2", "10"))
        \cup (IF j = "all_orders" THEN {ZuluRaw(j)} ELSE {})

InitClientes ==
    {{Customer(5, Str(<<"j">>))},
     {Customer(5, Str(<<"J">>)), Customer(6, Str(<<" ", "k">>))},
     {Customer(5, Str(<<"j">>)), Customer(6, Null)},
     {Customer(5, Str(<<"j">>)), Customer(6, Str(<<>>))},
     {Customer(5, Str(<<"j">>)), Customer(6, Str(<<" ">>))}}

InitOne ==
    /\ job \in Jobs
    /\ table \in InitTables
    /\ clientes \in InitClientes
    /\ remote \in [Runs -> SeqsUpTo(RichRaws(job), MaxPayload)]
    /\ remote[2] = <<>>
    /\ run = [r \in Runs |-> IdleRun]
    /\ pager = IdlePager

NextOne == Step(1)

SpecOne == InitOne /\ [][NextOne]_vars

\* Run r has its batch: the API call and the transformation succeeded.
Transformed(r) ==
    \/ run[r].pc \in {"write", "done"}
    \/ Closed(r) /\ run[r].res.err \in
          {"none", "duplicate_key", "database", "deadlock"}

MissingId(rec) == rec.id.k = "absent"

\* C6: in every job (boletos, products, bulk orders, customers and
\* /sync-orders of main.py) a record that lacks its identifier field is left
\* out of the batch, the other records are processed as if it were not in the
\* payload, and no exception of it reaches the endpoint.
C6_MissingIdSkipped ==
    LET rest == SelectSeq(remote[1], LAMBDA x : ~MissingId(x))
    IN  (\E i \in DOMAIN remote[1] : MissingId(remote[1][i])) =>
            /\ (Closed(1) /\ run[1].res.err = "transform")
                  => Prepared(job, 1, rest).exc # "none"
            /\ Transformed(1)
                  => run[1].batch = Prepared(job, 1, rest).batch

\* C6 for the four jobs other than /sync-orders of main.py.
C6_OtherJobsSkip ==
    job # "orders_task" => C6_MissingIdSkipped

\* A date field that holds text that is no ISO date.
Malformed(f) ==
    /\ f.k = "str"
    /\ f.s # <<>>
    /\ FromIsoDate(Str(ReplaceZ(f.s))).exc # "none"

\* Exactly one record of the payload has a malformed date; it is otherwise
\* well-formed, and so is every other record.
OneBadDate(payload) ==
    /\ Cardinality({i \in DOMAIN payload : Malformed(payload[i].date)}) = 1
    /\ \A i \in DOMAIN payload :
          LET clean == {CleanRaw(job, d, v) : d \in IdTokens, v \in ValTokens}
          IN  \/ payload[i] \in clean
              \/ /\ Malformed(payload[i].date)
                 /\ [payload[i] EXCEPT !.date = Str(<<"2024-05-01">>)] \in clean

\* C7: in sync-all-orders and sync-boletos a payload of n records of which
\* exactly one has a malformed date (the others valid and resolvable) never
\* fails in the transformation: the batch is the other n-1 records, in
\* order, and a run that succeeds reports n-1 and has their rows committed.
C7_BadDateSkipsOneRecord ==
    LET good == SelectSeq(remote[1], LAMBDA x : ~Malformed(x.date))
    IN  (job \in {"all_orders", "boletos"} /\ OneBadDate(remote[1])) =>
            /\ Closed(1) => run[1].res.err # "transform"
            /\ Transformed(1) =>
                  /\ Len(run[1].batch) = Len(remote[1]) - 1
                  /\ run[1].batch = Prepared(job, 1, good).batch
            /\ Succeeded(1) =>
                  /\ run[1].res.written = Len(remote[1]) - 1
                  /\ Keys(BatchRows(1)) \subseteq Keys(table)

\* A run over two records, one with a malformed date, succeeded and wrote
\* the other one.
C7_Witness ==
    /\ job \in {"all_orders", "boletos"}
    /\ OneBadDate(remote[1])
    /\ Len(remote[1]) >= 2
    /\ Succeeded(1)
    /\ run[1].res.written = Len(remote[1]) - 1
    /\ run[1].rowcount > 0

\* C8: process_orders resolves every order whose ClienteEmail, trimmed and
\* lower-cased, is a key of the reference map to that customer's id, and does
\* not skip it.
C8_ResolvesTrimmedLowercased ==
    (job = "all_orders" /\ Transformed(1)) =>
        \A i \in DOMAIN remote[1] :
            LET o == remote[1][i]
                id == MapGet(run[1].refs, Lower(Strip(o.ref.s)))
            IN  (/\ o.ref.k = "str"
                 /\ id # 0
                 /\ [o EXCEPT !.ref = Str(<<"j">>)] \in CleanRaws(job))
                    => \E t \in BatchRows(1) : t.key = o.id.s /\ t.cli = id

\* One record through the transformation of job j, with run r's map.
ItemOf(j, r, rec) ==
    CASE j = "boletos" -> BoletoItem(rec, run[r].refs)
      [] j = "products" -> ProductItem(rec)
      [] OTHER -> OrderItem(rec, run[r].refs)

\* Transforming the record raises an exception, of whatever kind.
RaisesInTransform(j, r, rec) == ItemOf(j, r, rec).exc \notin {"none", "skip"}

\* C13: in transform_boleto_data, transform_product_data and process_orders
\* an exception raised while transforming one record, whatever its kind,
\* skips that record alone: the run does not fail in the transformation and
\* its batch is the batch of the payload without the raising records.
C13_ExceptionSkipsOneRecord ==
    LET rest == SelectSeq(remote[1],
                          LAMBDA x : ~RaisesInTransform(job, 1, x))
    IN  (/\ job \in {"boletos", "products", "all_orders"}
         /\ run[1].pc # "idle"
         /\ \E i \in DOMAIN remote[1] :
               RaisesInTransform(job, 1, remote[1][i])) =>
            /\ Closed(1) => run[1].res.err # "transform"
            /\ Transformed(1) => run[1].batch = Prepared(job, 1, rest).batch

\* C13 for process_orders alone (except Exception).
C13_OrdersIsolated ==
    job = "all_orders" => C13_ExceptionSkipsOneRecord

\* process_orders skipped a record with a null ClienteEmail or no Data and
\* the run wrote the other record.
C13_OrdersReached ==
    /\ job = "all_orders"
    /\ Succeeded(1)
    /\ Len(remote[1]) = 2
    /\ Len(run[1].batch) = 1
    /\ \E i \in DOMAIN remote[1] :
          ItemOf(job, 1, remote[1][i]).exc \in {"AttributeError", "KeyError"}

\* A key of a reference map as the claim wants it: non-empty, trimmed and
\* lower-cased.
CleanKey(k) == k # <<>> /\ k = Lower(Strip(k))

\* Run r has built its reference map, or failed building it.
MapBuilt(r) == run[r].pc # "idle"

\* C15: for every content of the customer table, rows with a null, empty or
\* whitespace-only natural key included, fetch_clients_map and
\* fetch_clientes_mapping return a map without raising, and every key of the
\* map is a non-empty, trimmed, lower-cased string.
C15_MapNeverRaisesKeysClean ==
    (job \in {"boletos", "all_orders"} /\ MapBuilt(1)) =>
        /\ run[1].res.err # "refs"
        /\ \A e \in run[1].refs : CleanKey(e.key)

\* C15 for customer tables whose natural keys are all non-empty and carry
\* no surrounding whitespace.
C15_HoldsOnWellFormedCustomers ==
    (\A c \in clientes : c.name.k = "str" /\ c.name.s # <<>>
                            /\ c.name.s = Strip(c.name.s))
        => C15_MapNeverRaisesKeysClean

\* A map was built from a customer table with one well-formed key.
C15_WellFormedReached ==
    /\ job \in {"boletos", "all_orders"}
    /\ MapBuilt(1)
    /\ clientes = {Customer(5, Str(<<"j">>))}
    /\ run[1].refs = {[key |-> <<"j">>, id |-> 5]}

\* The batch holds no code that the existing-keys query returned.
C16_BatchExcludesExisting ==
    \A r \in Runs :
        (job \in {"products", "orders_task"} /\ Transformed(r)) =>
            Keys(BatchRows(r)) \cap run[r].existing = {}

\* C16: in sync-products and /sync-orders the batch handed to the store
\* holds each external code at most once and no code of the existing-keys
\* query, so a run with no concurrent writer never ends in a duplicate-key
\* failure, also when the payload repeats a code.
C16_InsertOnlyDeduplicates ==
    /\ C16_BatchExcludesExisting
    /\ \A r \in Runs :
          (job \in {"products", "orders_task"} /\ Transformed(r)) =>
              /\ \A i, j \in DOMAIN run[r].batch :
                    run[r].batch[i].key = run[r].batch[j].key => i = j
              /\ (Closed(r) /\ run[r].solo)
                    => run[r].res.err # "duplicate_key"

\* A run dropped a record whose code the existing-keys query had returned.
C16_ExcludedReached ==
    \E r \in Runs :
        /\ job \in {"products", "orders_task"}
        /\ Succeeded(r)
        /\ run[r].existing # {}
        /\ Len(run[r].batch) < Len(remote[r])
        /\ run[r].batch # <<>>

\* The record is well-formed apart from its customer reference.
ValidButRef(rec) ==
    [rec EXCEPT !.ref = Str(<<"j">>)] \in
        {CleanRaw(job, d, v) : d \in IdTokens, v \in ValTokens}

\* The customer reference of the record is absent, empty or no key of the
\* map, whether trimmed or not.
Unresolved(map, rec) ==
    \/ ~Truthy(rec.ref)
    \/ /\ rec.ref.k = "str"
       /\ MapGet(map, Lower(Strip(rec.ref.s))) = 0
       /\ MapGet(map, Lower(rec.ref.s)) = 0

\* The boletos policy: an unresolved boleto is in the batch with a null
\* id_cliente.
C17_BoletosKeepUnresolved ==
    (job = "boletos" /\ Transformed(1)) =>
        \A i \in DOMAIN remote[1] :
            (ValidButRef(remote[1][i]) /\ Unresolved(run[1].refs, remote[1][i]))
                => \E n \in DOMAIN run[1].batch :
                      /\ run[1].batch[n].key = PyStr(remote[1][i].id)
                      /\ run[1].batch[n].cli = 0
                      /\ Len(run[1].batch) = Len(remote[1]) => n = i

\* The bulk-orders policy: an unresolved order is left out of the batch and
\* no order of the batch has a null id_cliente.
C17_OrdersSkipUnresolved ==
    LET rest == SelectSeq(remote[1],
                          LAMBDA x : ~Unresolved(run[1].refs, x))
    IN  (job = "all_orders" /\ Transformed(1)) =>
            /\ \A t \in BatchRows(1) : t.cli # 0
            /\ run[1].batch = Prepared(job, 1, rest).batch

\* C17: sync-boletos places every boleto whose Sacado is absent, empty or not
\* in the reference map in the batch with a null id_cliente; sync-all-orders
\* leaves every order whose ClienteEmail is absent, empty or not in the map
\* out of the batch, and writes no order with a null id_cliente.
C17_OnePolicyPerEntity ==
    /\ C17_BoletosKeepUnresolved
    /\ C17_OrdersSkipUnresolved

\* C17 for reference maps without the empty key.
C17_HoldsWithoutEmptyKey ==
    (\A e \in run[1].refs : e.key # <<>>) => C17_OnePolicyPerEntity

\* A boleto with an unknown Sacado was written with a null id_cliente.
C17_BoletoReached ==
    /\ job = "boletos"
    /\ Succeeded(1)
    /\ \E i \in DOMAIN remote[1] :
          /\ remote[1][i].ref = Str(<<"k">>)
          /\ Unresolved(run[1].refs, remote[1][i])
          /\ \E t \in table : t.key = PyStr(remote[1][i].id) /\ t.cli = 0

\* An order with an unknown ClienteEmail was left out of a batch that wrote
\* the other order.
C17_OrderReached ==
    /\ job = "all_orders"
    /\ Succeeded(1)
    /\ Len(remote[1]) = 2 /\ Len(run[1].batch) = 1
    /\ \E i \in DOMAIN remote[1] :
          /\ remote[1][i].ref = Str(<<"k">>)
          /\ Unresolved(run[1].refs, remote[1][i])

(***************************************************************************)
(* fetch_paginated_orders against a finite remote source.                  *)
(***************************************************************************)
PageSizes == {0, 37, PageSize - 1, PageSize}

InitPaging ==
    /\ job = "all_orders"
    /\ table = {}
    /\ clientes = {}
    /\ remote = [r \in Runs |-> <<>>]
    /\ run = [r \in Runs |-> IdleRun]
    /\ \E sizes \in [1..MaxPages -> PageSizes] :
          pager = [IdlePager EXCEPT !.sizes = sizes, !.pc = "loop"]

SpecPaging == InitPaging /\ [][NextPaging]_vars

RECURSIVE PagesUpTo(_, _)
PagesUpTo(sizes, n) ==
    IF n = 0 THEN <<>> ELSE PagesUpTo(sizes, n - 1) \o PageOf(sizes, n)

\* C5: fetch_paginated_orders requests pages 1, 2, 3, ... in increasing
\* order, each once; it goes on only after full pages and returns right after
\* the first page that is empty or shorter than 100, with the concatenation
\* of the pages fetched, in order; for pages of sizes 100, 100, 37 it issues
\* exactly 3 requests.
C5_PagingStopsAtShortPage ==
    LET n == Len(pager.log)
    IN  /\ pager.log = [i \in 1..n |-> i]
        /\ pager.pc = "loop" =>
              /\ pager.page = n + 1
              /\ \A p \in 1..n : Len(PageOf(pager.sizes, p)) = PageSize
              /\ pager.all_orders = PagesUpTo(pager.sizes, n)
        /\ pager.pc = "returned" =>
              /\ n >= 1
              /\ \A p \in 1..(n - 1) : Len(PageOf(pager.sizes, p)) = PageSize
              /\ Len(PageOf(pager.sizes, n)) < PageSize
              /\ pager.all_orders = PagesUpTo(pager.sizes, n)
              /\ pager.sizes = <<PageSize, PageSize, 37>> => n = 3

\* The call returned after pages of sizes 100, 100 and 37, with 237 records.
C5_Witness ==
    /\ pager.pc = "returned"
    /\ SubSeq(pager.sizes, 1, 3) = <<PageSize, PageSize, 37>>
    /\ pager.log = <<1, 2, 3>>
    /\ Len(pager.all_orders) = 237

(***************************************************************************)
(* One run whose API calls may fail: a single call for sync-boletos,       *)
(* sync-customers, sync-products and /sync-orders, the paged calls of      *)
(* fetch_paginated_orders for sync-all-orders.                             *)
(***************************************************************************)
\* The order the remote source holds at position m[2] of page m[1].
OrderAt(m) ==
    CleanRaw("all_orders", ToString(m[1] * (PageSize + 1) + m[2]), "10")

Orders(marks) == [i \in DOMAIN marks |-> OrderAt(marks[i])]

Paged(j) == j = "all_orders"

\* sync_all_orders, step 2, one turn of the loop of fetch_paginated_orders
\* with a response of status 2xx.
PagedRequest(r) ==
    /\ Paged(job)
    /\ run[r].pc = "fetch"
    /\ RequestPage

\* sync_all_orders, step 2, the request of a page fails: what the except
\* clause of fetch_paginated_orders raises leaves the endpoint as
\* HTTPException(500) and get_db_cursor rolls back.
PagedFail(r) ==
    /\ Paged(job)
    /\ run[r].pc = "fetch"
    /\ pager.pc = "loop"
    /\ pager' = PageFailure(pager)
    /\ run' = [run EXCEPT ![r] = IF pager'.pc = "raised"
                                 THEN Failed(r, "transport") ELSE run[r]]
    /\ UNCHANGED <<job, table, clientes, remote>>

\* sync_all_orders, steps 2 to 3: fetch_paginated_orders has returned and
\* the endpoint transforms all_orders.
PagedFetch(r) ==
    /\ Paged(job)
    /\ run[r].pc = "fetch"
    /\ pager.pc = "returned"
    /\ run' = [run EXCEPT ![r] = Fetched(r, Orders(pager.all_orders))]
    /\ UNCHANGED <<job, table, clientes, remote, pager>>

InitTransport ==
    /\ job \in Jobs
    /\ table \in InitTables
    /\ clientes = {Customer(5, Str(<<"j">>))}
    /\ remote \in [Runs -> SeqsUpTo(CleanRaws(job), MaxPayload)]
    /\ remote[2] = <<>>
    /\ Paged(job) => remote[1] = <<>>
    /\ run = [r \in Runs |-> IdleRun]
    /\ \E sizes \in [1..MaxPages -> PageSizes] :
          pager = IF Paged(job)
                  THEN [IdlePager EXCEPT !.sizes = sizes, !.pc = "loop"]
                  ELSE IdlePager

NextTransport ==
    \/ Begin(1)
    \/ (~Paged(job) /\ Fetch(1))
    \/ (~Paged(job) /\ FetchFail(1))
    \/ PagedRequest(1)
    \/ PagedFail(1)
    \/ PagedFetch(1)
    \/ Write(1)
    \/ WriteFail(1)
    \/ Success(1)

SpecTransport == InitTransport /\ [][NextTransport]_vars

\* The run ended because an API call failed.
TransportFailed(r) == Closed(r) /\ run[r].res.err = "transport"

\* What a failed API call leaves: an error response, nothing transformed and
\* no statement executed, the table as the run found it.
C11_NothingWritten ==
    \A r \in Runs :
        TransportFailed(r) =>
            /\ run[r].res.status = "error"
            /\ run[r].batch = <<>> /\ run[r].rowcount = 0 /\ run[r].pend = {}
            /\ run[r].after = run[r].before
            /\ table = run[r].before

\* The paged run: every page is requested once, a failed request ends the
\* run, and a run that reports success had every request answered.
C11_PagedRun ==
    Paged(job) =>
        /\ pager.log = [i \in 1..Len(pager.log) |-> i]
        /\ pager.pc = "raised" => TransportFailed(1)
        /\ Succeeded(1) =>
              /\ pager.pc = "returned"
              /\ pager.all_orders = PagesUpTo(pager.sizes, Len(pager.log))
              /\ run[1].seen = Len(pager.all_orders)

\* A run that has ended makes no further call and changes nothing.
C11_NoRetry ==
    /\ \A r \in Runs : Closed(r) => run'[r] = run[r]
    /\ pager.pc = "raised" => pager' = pager
    /\ (\E r \in Runs : TransportFailed(r)) => table' = table

\* C11: when an API call fails, on the first page or on a later one, the run
\* ends with an error response and never reports success, the failed call is
\* not made again, and no record fetched so far is written to the table.
C11_TransportFailureFailsRun ==
    /\ [](C11_NothingWritten /\ C11_PagedRun)
    /\ [][C11_NoRetry]_vars

\* sync-all-orders failed on its third page, with two full pages fetched.
C11_Witness ==
    /\ Paged(job)
    /\ pager.pc = "raised"
    /\ pager.log = <<1, 2, 3>>
    /\ Len(pager.all_orders) = 2 * PageSize
    /\ TransportFailed(1)
    /\ table = run[1].before

====
